---- MODULE Spec2Model ----
(***************************************************************************)
(* Model of requery's URL query parser (src/src/parser.js).                *)
(*                                                                         *)
(* A JavaScript string is a sequence of one-character strings, so that     *)
(* trim, split, startsWith and the condition pattern are computed          *)
(* character by character.  The dispatcher loop of parser() and the        *)
(* character loop of tokenize() are state machines; parseExpression,       *)
(* parseCondition, parseValue, parseSort and parseFields are operators.    *)
(*                                                                         *)
(* The model starts from the decoded query parameters                      *)
(* (urlObj.searchParams.entries()); the decoding of the URL and the path   *)
(* (resourceType, identifier) are left out.                                *)
(***************************************************************************)
EXTENDS Integers, Sequences, FiniteSets, TLC

\* ------------------------------------------------------------------ bounds
MaxPieces == 4       \* filter strings are built from at most this many pieces
MaxSortPieces == 4   \* sort values are built from at most this many pieces
MaxParams == 3       \* query strings of the mixed family hold at most this many parameters
MaxFieldsPieces == 4 \* fields values are built from at most this many pieces
MaxPagePieces == 4   \* limit and offset values are built from at most this many pieces

\* ------------------------------------------------------- character classes
Digit == {"0", "1", "2", "3", "4", "5", "6", "7", "8", "9"}

Lower == {"a", "b", "c", "d", "e", "f", "g", "h", "i", "j", "k", "l", "m",
          "n", "o", "p", "q", "r", "s", "t", "u", "v", "w", "x", "y", "z"}

Upper == {"A", "B", "C", "D", "E", "F", "G", "H", "I", "J", "K", "L", "M",
          "N", "O", "P", "Q", "R", "S", "T", "U", "V", "W", "X", "Y", "Z"}

\* \w of a JavaScript regular expression
WordChar == Lower \cup Upper \cup Digit \cup {"_"}

\* [\w\\.?] : the characters of a condition's field
FieldChar == WordChar \cup {"\\", ".", "?"}

\* the characters String.prototype.trim removes (those the inputs can hold)
WhiteSpace == {" ", "\t", "\n", "\r"}

\* the characters "." of a regular expression does not match
LineTerminator == {"\n", "\r"}

\* -------------------------------------------------------- string helpers
Min(S) == CHOOSE x \in S : \A y \in S : x <= y

Max(S) == CHOOSE x \in S : \A y \in S : y <= x

\* String.prototype.trim
trim(s) ==
  LET keep == {k \in 1..Len(s) : s[k] \notin WhiteSpace}
  IN  IF keep = {} THEN <<>> ELSE SubSeq(s, Min(keep), Max(keep))

\* String.prototype.trimStart (the whitespace parseFloat and parseInt skip)
trimStart(s) ==
  LET keep == {k \in 1..Len(s) : s[k] \notin WhiteSpace}
  IN  IF keep = {} THEN <<>> ELSE SubSeq(s, Min(keep), Len(s))

\* String.prototype.split with a one-character separator: every occurrence
\* of the separator splits, and a string without it is a single part
split(s, sep) ==
  LET at == {k \in 1..Len(s) : s[k] = sep}
      n == Cardinality(at)
      cut(j) == IF j = 0 THEN 0
                ELSE IF j = n + 1 THEN Len(s) + 1
                ELSE CHOOSE p \in at : Cardinality({q \in at : q <= p}) = j
  IN  [j \in 1..(n + 1) |-> SubSeq(s, cut(j - 1) + 1, cut(j) - 1)]

\* String.prototype.startsWith
startsWith(s, prefix) ==
  /\ Len(s) >= Len(prefix)
  /\ SubSeq(s, 1, Len(prefix)) = prefix

\* ------------------------------------------------------------------ errors
NoError == [msg |-> "", arg |-> <<>>]

MissingDelimiter == [msg |-> "Invalid syntax: missing delimiter before \"(\"", arg |-> <<>>]

InvalidCondition(text) == [msg |-> "Invalid filter condition", arg |-> text]

MissingOrderField == [msg |-> "Missing order field", arg |-> <<>>]

InvalidDirection(text) == [msg |-> "Invalid sorting direction", arg |-> text]

InvalidFields == [msg |-> "Invalid fields selection", arg |-> <<>>]

InvalidPagination(key) == [msg |-> "Invalid pagination field", arg |-> key]

\* ----------------------------------------------------------------- numbers
RECURSIVE digitsToNat(_)
digitsToNat(ds) ==
  IF ds = <<>> THEN 0
  ELSE 10 * digitsToNat(SubSeq(ds, 1, Len(ds) - 1))
       + (CHOOSE v \in 0..9 : <<"0", "1", "2", "3", "4", "5", "6", "7", "8", "9">>[v + 1] = ds[Len(ds)])

IsDigits(s) == \A k \in 1..Len(s) : s[k] \in Digit

\* the parts of a string read as StrDecimalLiteral of the ECMAScript numeric
\* string grammar: [sign] digits [. digits] [e [sign] digits]
decimalParts(t) ==
  LET signed == t # <<>> /\ t[1] \in {"+", "-"}
      body == IF signed THEN Tail(t) ELSE t
      es == {k \in 1..Len(body) : body[k] \in {"e", "E"}}
      mant == IF es = {} THEN body ELSE SubSeq(body, 1, Min(es) - 1)
      expo == IF es = {} THEN <<>> ELSE SubSeq(body, Min(es) + 1, Len(body))
      expSigned == expo # <<>> /\ expo[1] \in {"+", "-"}
      expDigits == IF expSigned THEN Tail(expo) ELSE expo
      dots == {k \in 1..Len(mant) : mant[k] = "."}
      int == IF dots = {} THEN mant ELSE SubSeq(mant, 1, Min(dots) - 1)
      frac == IF dots = {} THEN <<>> ELSE SubSeq(mant, Min(dots) + 1, Len(mant))
  IN  [ok |-> /\ IsDigits(int) /\ IsDigits(frac)
              /\ Len(int) + Len(frac) >= 1
              /\ (es # {} => (expDigits # <<>> /\ IsDigits(expDigits))),
       negative |-> signed /\ t[1] = "-",
       int |-> int, frac |-> frac,
       expNegative |-> expSigned /\ expo[1] = "-",
       expDigits |-> expDigits]

IsDecimalLiteral(t) == decimalParts(t).ok

\* parseFloat(value) is NaN unless a prefix of the value, leading whitespace
\* skipped, is a decimal literal
parseFloatIsNaN(value) ==
  LET u == trimStart(value)
  IN  ~ \E n \in 1..Len(u) : IsDecimalLiteral(SubSeq(u, 1, n))

\* isFinite(value) converts with Number(value): the whole trimmed string is
\* a decimal literal, or it is empty (Number("") is 0).  The inputs hold no
\* radix prefix (0x, 0o, 0b) and no exponent large enough to overflow.
isFiniteString(value) ==
  LET t == trim(value)
  IN  t = <<>> \/ IsDecimalLiteral(t)

isNumeric(value) == ~ parseFloatIsNaN(value) /\ isFiniteString(value)

RECURSIVE stripZeros(_, _)
stripZeros(m, e) ==
  IF m = 0 THEN [mant |-> 0, exp |-> 0]
  ELSE IF m % 10 = 0 THEN stripZeros(m \div 10, e + 1)
  ELSE [mant |-> m, exp |-> e]

\* Number(value) of a numeric string, as mant * 10^exp with mant not a
\* multiple of ten
Number(value) ==
  LET p == decimalParts(trim(value))
      m == digitsToNat(p.int \o p.frac)
      x == digitsToNat(p.expDigits)
      n == stripZeros(m, (IF p.expNegative THEN 0 - x ELSE x) - Len(p.frac))
  IN  [mant |-> IF p.negative THEN 0 - n.mant ELSE n.mant, exp |-> n.exp]

\* ------------------------------------------------------------------ filter
LParen == <<"(">>

RParen == <<")">>

AndToken == <<"a", "n", "d">>

OrToken == <<"o", "r">>

NullText == <<"n", "u", "l", "l">>

\* parseValue: 'null' is null, a numeric string is its number, any other
\* string is kept
parseValue(value) ==
  IF value = NullText THEN [kind |-> "null"]
  ELSE IF isNumeric(value) THEN [kind |-> "number", num |-> Number(value)]
  ELSE [kind |-> "string", str |-> value]

\* conditionString.match(/^([\w\\.?]+)\[([\w]+)](.+)$/): the field is the text
\* before the first "[", the operator the text up to the next "]", the value
\* the rest
matchCondition(s) ==
  LET opens == {k \in 1..Len(s) : s[k] = "["}
      f == IF opens = {} THEN 0 ELSE Min(opens)
      closes == {k \in (f + 1)..Len(s) : s[k] = "]"}
      r == IF closes = {} THEN 0 ELSE Min(closes)
      field == SubSeq(s, 1, f - 1)
      operator == SubSeq(s, f + 1, r - 1)
      value == SubSeq(s, r + 1, Len(s))
  IN  [ok |-> /\ f > 0 /\ r > 0
              /\ field # <<>> /\ \A k \in 1..Len(field) : field[k] \in FieldChar
              /\ operator # <<>> /\ \A k \in 1..Len(operator) : operator[k] \in WordChar
              /\ value # <<>> /\ \A k \in 1..Len(value) : value[k] \notin LineTerminator,
       field |-> field, operator |-> operator, value |-> value]

parseCondition(conditionString) ==
  LET match == matchCondition(conditionString)
  IN  IF ~ match.ok
      THEN [err |-> InvalidCondition(conditionString)]
      ELSE [err |-> NoError,
            node |-> [field |-> match.field, operator |-> match.operator,
                      value |-> parseValue(match.value)]]

\* /;$/.test(text)
endsWithSemicolon(text) == text # <<>> /\ text[Len(text)] = ";"

\* the two markers exchanged
markerSwapped(char) == IF char = ";" THEN OrToken ELSE AndToken

\* char === ';' ? 'and' : 'or'
marker(char) == IF char = ";" THEN AndToken ELSE OrToken

\* tokenize, char === '(' with the pending text flushed as a token instead
\* of rejected
tokenizeOpenFlushing(st) ==
  IF trim(st.buffer) # <<>>
  THEN [st EXCEPT !.tokens = @ \o <<trim(st.buffer), LParen>>, !.buffer = <<>>]
  ELSE [st EXCEPT !.tokens = Append(@, LParen)]

\* tokenize, char === '(' : pending text that does not end with ";" is an
\* error; the buffer is left as it is
tokenizeOpen(st) ==
  IF trim(st.buffer) # <<>> /\ ~ endsWithSemicolon(trim(st.buffer))
  THEN [st EXCEPT !.err = MissingDelimiter]
  ELSE [st EXCEPT !.tokens = Append(@, LParen)]

\* tokenize, char === ')' or a delimiter: the pending text, if any, is
\* pushed, then the structural token
tokenizePush(st, token) ==
  IF trim(st.buffer) # <<>>
  THEN [st EXCEPT !.tokens = @ \o <<trim(st.buffer), token>>, !.buffer = <<>>]
  ELSE [st EXCEPT !.tokens = Append(@, token)]

\* one iteration of the character loop of tokenize, on the locals
\* st = [tokens, buffer, err]
tokenizeChar(st, char) ==
  IF char = "(" THEN tokenizeOpen(st)
  ELSE IF char = ")" THEN tokenizePush(st, RParen)
  ELSE IF char = ";" \/ char = "|" THEN tokenizePush(st, marker(char))
  ELSE [st EXCEPT !.buffer = Append(@, char)]

\* the end of tokenize without the push of the pending text
tokenizeEndDropping(st) == st.tokens

\* the end of tokenize: the pending text is the last token
tokenizeEnd(st) ==
  IF trim(st.buffer) # <<>> THEN Append(st.tokens, trim(st.buffer)) ELSE st.tokens

RECURSIVE tokenizeFrom(_, _, _)
tokenizeFrom(st, input, k) ==
  IF st.err # NoError THEN st
  ELSE IF k > Len(input) THEN [st EXCEPT !.tokens = tokenizeEnd(st)]
  ELSE tokenizeFrom(tokenizeChar(st, input[k]), input, k + 1)

\* tokenize(input) as a whole: [tokens, buffer, err]
tokenize(input) == tokenizeFrom([tokens |-> <<>>, buffer |-> <<>>, err |-> NoError], input, 1)

EmptyGroup == [type |-> "group", logical |-> AndToken, conditions |-> <<>>]

\* a call of parseExpression is followed on acc = [err, group, tokens]: the
\* error thrown so far, the currentGroup of the call, and the token queue

\* the children of the nested group pushed instead of the group
pushGroupFlattening(acc, sub) ==
  IF sub.err # NoError THEN sub
  ELSE [err |-> NoError,
        group |-> [acc.group EXCEPT !.conditions = @ \o sub.group.conditions],
        tokens |-> sub.tokens]

\* currentGroup.conditions.push(<the group the nested call returned>): the
\* queue is as the nested call left it
pushGroup(acc, sub) ==
  IF sub.err # NoError THEN sub
  ELSE [err |-> NoError,
        group |-> [acc.group EXCEPT !.conditions = Append(@, sub.group)],
        tokens |-> sub.tokens]

\* currentGroup.conditions.push(parseCondition(token))
pushCondition(acc, c) ==
  IF c.err # NoError
  THEN [acc EXCEPT !.err = c.err, !.tokens = Tail(@)]
  ELSE [acc EXCEPT !.group.conditions = Append(@, c.node), !.tokens = Tail(@)]

RECURSIVE parseExpressionLoop(_)

\* one iteration of the while loop of parseExpression on a token that is
\* not ')': tokens.shift(), then the branch of the token
parseToken(acc) ==
  IF Head(acc.tokens) = LParen
  THEN pushGroup(acc, parseExpressionLoop([err |-> NoError, group |-> EmptyGroup,
                                            tokens |-> Tail(acc.tokens)]))
  ELSE IF Head(acc.tokens) = AndToken \/ Head(acc.tokens) = OrToken
  THEN [acc EXCEPT !.group.logical = Head(acc.tokens), !.tokens = Tail(@)]
  ELSE pushCondition(acc, parseCondition(Head(acc.tokens)))

\* the while loop of parseExpression: it ends when the queue is empty or on
\* ')', which is shifted off the queue, and a throw ends it too
parseExpressionLoop(acc) ==
  IF acc.err # NoError \/ acc.tokens = <<>> THEN acc
  ELSE IF Head(acc.tokens) = RParen THEN [acc EXCEPT !.tokens = Tail(@)]
  ELSE parseExpressionLoop(parseToken(acc))

\* parseExpression returning a lone condition bare, without its group
parseExpressionUnwrapping(tokens) ==
  LET r == parseExpressionLoop([err |-> NoError, group |-> EmptyGroup, tokens |-> tokens])
  IN  IF r.err = NoError /\ Len(r.group.conditions) = 1
      THEN [r EXCEPT !.group = r.group.conditions[1]]
      ELSE r

\* parseExpression(tokens): [err, group, tokens], the group returned and
\* what is left of the queue
parseExpression(tokens) ==
  parseExpressionLoop([err |-> NoError, group |-> EmptyGroup, tokens |-> tokens])

\* parseFilter(filterString): tokenize, then parseExpression
parseFilter(filterString) ==
  LET t == tokenize(filterString)
  IN  IF t.err # NoError
      THEN [err |-> t.err, group |-> EmptyGroup, tokens |-> <<>>]
      ELSE parseExpression(t.tokens)

\* -------------------------------------------------------------------- sort
AscText == <<"a", "s", "c">>

DescText == <<"d", "e", "s", "c">>

\* the callback of parseSort's map, on one comma-separated item
parseSortItem(sortParam) ==
  LET parts == split(sortParam, ":")
      field == parts[1]
      hasDirection == Len(parts) >= 2 /\ parts[2] # <<>>
  IN  IF field = <<>> THEN [err |-> MissingOrderField]
      ELSE IF ~ hasDirection
      THEN [err |-> NoError, item |-> [field |-> field, direction |-> AscText]]
      ELSE IF parts[2] # AscText /\ parts[2] # DescText
      THEN [err |-> InvalidDirection(parts[2])]
      ELSE [err |-> NoError, item |-> [field |-> field, direction |-> parts[2]]]

\* parseSort(value): the items in comma order, or the error of the first
\* item that throws
parseSort(value) ==
  LET items == split(value, ",")
      each == [j \in 1..Len(items) |-> parseSortItem(items[j])]
      bad == {j \in 1..Len(items) : each[j].err # NoError}
  IN  IF bad # {}
      THEN [err |-> each[Min(bad)].err, sort |-> <<>>]
      ELSE [err |-> NoError, sort |-> [j \in 1..Len(items) |-> each[j].item]]

\* ------------------------------------------------------------------ fields
\* parseFields(key, value): a mapping with the single entry
\* resourceType -> field names
parseFields(key, value) ==
  LET parts == split(value, ":")
      resourceType == parts[1]
      hasFields == Len(parts) >= 2 /\ parts[2] # <<>>
  IN  IF resourceType = <<>> \/ ~ hasFields
      THEN [err |-> InvalidFields, fields |-> <<>>]
      ELSE [err |-> NoError,
            fields |-> [r \in {resourceType} |-> split(parts[2], ",")]]

\* { ...a, ...b }
spread(a, b) ==
  [r \in (DOMAIN a) \cup (DOMAIN b) |-> IF r \in DOMAIN b THEN b[r] ELSE a[r]]

\* -------------------------------------------------------------- pagination
\* parseInt(value, 10): leading whitespace skipped, an optional sign, then
\* the longest run of digits; NaN when there is no digit
parseInt(value) ==
  LET u == trimStart(value)
      signed == u # <<>> /\ u[1] \in {"+", "-"}
      body == IF signed THEN Tail(u) ELSE u
      stops == {k \in 1..Len(body) : body[k] \notin Digit}
      digits == IF stops = {} THEN body ELSE SubSeq(body, 1, Min(stops) - 1)
      n == digitsToNat(digits)
  IN  IF digits = <<>> THEN [nan |-> TRUE, int |-> 0]
      ELSE [nan |-> FALSE, int |-> IF signed /\ u[1] = "-" THEN 0 - n ELSE n]

\* ------------------------------------------------------------------ inputs
RECURSIVE concat(_)
concat(pieces) == IF pieces = <<>> THEN <<>> ELSE Head(pieces) \o concat(Tail(pieces))

\* every string made of at most n pieces
Strings(pieces, n) == {concat(ps) : ps \in UNION {[1..m -> pieces] : m \in 0..n}}

\* the text a filter value is built from: two well-formed conditions, a
\* leaf that is no condition, a leaf spelt like the "or" marker, the four
\* structural characters and a blank
FilterPieces ==
  { <<"a", "[", "q", "]", "1">>, <<"b", "[", "q", "]", "z">>, <<"x">>, <<"o", "r">>,
    <<"(">>, <<")">>, <<";">>, <<"|">>, <<" ">> }

\* the text a sort value is built from
SortPieces == { <<"n">>, <<":">>, <<",">>, AscText, DescText }

\* the text a fields value is built from
FieldsPieces == { <<"u">>, <<"n">>, <<":">>, <<",">> }

\* the text a limit or offset value is built from
PagePieces == { <<"1">>, <<"-">>, <<".">>, <<"e">>, <<"x">> }

FilterKey == <<"f", "i", "l", "t", "e", "r">>

SortKey == <<"s", "o", "r", "t">>

FieldsKey == <<"f", "i", "e", "l", "d", "s">>

LimitKey == <<"l", "i", "m", "i", "t">>

OffsetKey == <<"o", "f", "f", "s", "e", "t">>

Param(key, value) == [key |-> key, value |-> value]

\* the parameters of the mixed query strings: of every recognised name, one
\* with a value its parser accepts and one with a value it rejects, and a
\* name the dispatcher ignores
ParamPool ==
  { Param(FilterKey, <<"a", "[", "q", "]", "1">>),
    Param(FilterKey, <<"x">>),
    Param(SortKey, <<"n">>),
    Param(SortKey, <<"a", "s", "c", ":", "d", "e", "s", "c", ",", "n">>),
    Param(SortKey, <<"n", ":", "n">>),
    Param(FieldsKey, <<"u", ":", "n", ",", "m">>),
    Param(FieldsKey \o <<"x">>, <<"n">>),
    Param(LimitKey, <<"1", "0">>),
    Param(OffsetKey, <<"x">>),
    Param(<<"p", "a", "g", "e">>, <<"1">>) }

\* urlObj.searchParams.entries(): a query string with one filter parameter,
\* one with one sort, fields, limit or offset parameter, or a mixed one
Inputs ==
  {<<Param(FilterKey, f)>> : f \in Strings(FilterPieces, MaxPieces)}
    \cup {<<Param(SortKey, v)>> : v \in Strings(SortPieces, MaxSortPieces)}
    \cup {<<Param(FieldsKey, v)>> : v \in Strings(FieldsPieces, MaxFieldsPieces)}
    \cup {<<Param(key, v)>> : key \in {LimitKey, OffsetKey}, v \in Strings(PagePieces, MaxPagePieces)}
    \cup UNION {[1..m -> ParamPool] : m \in 0..MaxParams}

\* ------------------------------------------------------------------- state
VARIABLES
  params,   \* the query parameters of the URL, in order
  i,        \* the parameter the loop of parser is at
  pc,       \* "loop", "tokenize" (inside parseFilter), "done" (returned), "error" (thrown)
  result,   \* the Query under construction (its filter, sort, fields and pagination)
  err,      \* the error thrown
  tokens,   \* tokenize's token list, then parseExpression's token queue
  buffer,   \* tokenize's buffer
  pos       \* the character of the filter value tokenize is at

vars == <<params, i, pc, result, err, tokens, buffer, pos>>

Init ==
  /\ params \in Inputs
  /\ i = 1
  /\ pc = "loop"
  /\ result = [filter |-> <<>>, sort |-> <<>>, fields |-> <<>>, pagination |-> <<>>]
       \* filter: [], sort: [], fields: {}, pagination: {}
  /\ err = NoError
  /\ tokens = <<>>
  /\ buffer = <<>>
  /\ pos = 0

\* the for loop of parser is at a parameter
AtParam == pc = "loop" /\ i <= Len(params)

\* throw: the parse is aborted, nothing is returned
Throw(e) ==
  /\ pc' = "error"
  /\ err' = e
  /\ UNCHANGED <<i, result>>

\* key === 'filter': parseFilter is entered, tokenize starts
ParamFilter ==
  /\ AtParam
  /\ params[i].key = FilterKey
  /\ pc' = "tokenize"
  /\ tokens' = <<>>
  /\ buffer' = <<>>
  /\ pos' = 1
  /\ UNCHANGED <<params, i, result, err>>

\* one iteration of tokenize's loop
TokenizeChar ==
  /\ pc = "tokenize"
  /\ pos <= Len(params[i].value)
  /\ LET st == tokenizeChar([tokens |-> tokens, buffer |-> buffer, err |-> NoError],
                            params[i].value[pos])
     IN  IF st.err # NoError
         THEN /\ Throw(st.err)
              /\ UNCHANGED <<tokens, buffer, pos>>
         ELSE /\ tokens' = st.tokens
              /\ buffer' = st.buffer
              /\ pos' = pos + 1
              /\ UNCHANGED <<i, pc, result, err>>
  /\ UNCHANGED params

\* the end of tokenize, parseExpression on its tokens, and the assignment
\* to result.filter
ParseExpression ==
  /\ pc = "tokenize"
  /\ pos > Len(params[i].value)
  /\ LET r == parseExpression(tokenizeEnd([tokens |-> tokens, buffer |-> buffer]))
     IN  /\ tokens' = r.tokens
         /\ IF r.err # NoError
            THEN Throw(r.err)
            ELSE /\ result' = [result EXCEPT !.filter = r.group]
                 /\ i' = i + 1
                 /\ pc' = "loop"
                 /\ UNCHANGED err
  /\ UNCHANGED <<params, buffer, pos>>

\* key === 'sort' with the list replaced instead of extended
ParamSortReplacing ==
  /\ AtParam
  /\ params[i].key # FilterKey
  /\ params[i].key = SortKey
  /\ LET r == parseSort(params[i].value)
     IN  IF r.err # NoError
         THEN Throw(r.err)
         ELSE /\ result' = [result EXCEPT !.sort = r.sort]
              /\ i' = i + 1
              /\ UNCHANGED <<pc, err>>
  /\ UNCHANGED <<params, tokens, buffer, pos>>

\* key === 'sort'
ParamSort ==
  /\ AtParam
  /\ params[i].key # FilterKey
  /\ params[i].key = SortKey
  /\ LET r == parseSort(params[i].value)
     IN  IF r.err # NoError
         THEN Throw(r.err)
         ELSE /\ result' = [result EXCEPT !.sort = @ \o r.sort]
              /\ i' = i + 1
              /\ UNCHANGED <<pc, err>>
  /\ UNCHANGED <<params, tokens, buffer, pos>>

\* key.startsWith('fields')
ParamFields ==
  /\ AtParam
  /\ params[i].key \notin {FilterKey, SortKey}
  /\ startsWith(params[i].key, FieldsKey)
  /\ LET r == parseFields(params[i].key, params[i].value)
     IN  IF r.err # NoError
         THEN Throw(r.err)
         ELSE /\ result' = [result EXCEPT !.fields = spread(@, r.fields)]
              /\ i' = i + 1
              /\ UNCHANGED <<pc, err>>
  /\ UNCHANGED <<params, tokens, buffer, pos>>

\* key === 'limit' || key === 'offset' without the numeric check
ParamPaginationUnchecked ==
  /\ AtParam
  /\ params[i].key \notin {FilterKey, SortKey}
  /\ ~ startsWith(params[i].key, FieldsKey)
  /\ params[i].key \in {LimitKey, OffsetKey}
  /\ result' = [result EXCEPT !.pagination =
                  spread(@, [k \in {params[i].key} |-> parseInt(params[i].value)])]
  /\ i' = i + 1
  /\ UNCHANGED <<params, pc, err, tokens, buffer, pos>>

\* key === 'limit' || key === 'offset'
ParamPagination ==
  /\ AtParam
  /\ params[i].key \notin {FilterKey, SortKey}
  /\ ~ startsWith(params[i].key, FieldsKey)
  /\ params[i].key \in {LimitKey, OffsetKey}
  /\ IF ~ isNumeric(params[i].value)
     THEN Throw(InvalidPagination(params[i].key))
     ELSE /\ result' = [result EXCEPT !.pagination =
                          spread(@, [k \in {params[i].key} |-> parseInt(params[i].value)])]
          /\ i' = i + 1
          /\ UNCHANGED <<pc, err>>
  /\ UNCHANGED <<params, tokens, buffer, pos>>

\* any other key: the loop goes on
ParamIgnored ==
  /\ AtParam
  /\ params[i].key \notin {FilterKey, SortKey, LimitKey, OffsetKey}
  /\ ~ startsWith(params[i].key, FieldsKey)
  /\ i' = i + 1
  /\ UNCHANGED <<params, pc, result, err, tokens, buffer, pos>>

\* return result
Return ==
  /\ pc = "loop"
  /\ i > Len(params)
  /\ pc' = "done"
  /\ UNCHANGED <<params, i, result, err, tokens, buffer, pos>>

Next ==
  \/ ParamFilter
  \/ TokenizeChar
  \/ ParseExpression
  \/ ParamSort
  \/ ParamFields
  \/ ParamPagination
  \/ ParamIgnored
  \/ Return

Spec == Init /\ [][Next]_vars

\* ============================================================== properties
Structural == {"(", ")", ";", "|"}

IsFilter(k) == params[k].key = FilterKey

IsSort(k) == params[k].key = SortKey

\* the parameters the loop has gone past
Done == 1..(i - 1)

\* the last filter parameter the loop has gone past, 0 if there is none
LastFilterDone ==
  LET fs == {k \in Done : IsFilter(k)}
  IN  IF fs = {} THEN 0 ELSE Max(fs)

HasFilterParam == \E k \in 1..Len(params) : IsFilter(k)

\* a Group node: type 'group', a logical tag, a list of conditions
IsGroup(n) ==
  /\ DOMAIN n = {"type", "logical", "conditions"}
  /\ n.type = "group"
  /\ n.logical \in {AndToken, OrToken}
  /\ DOMAIN n.conditions = 1..Len(n.conditions)

IsEmptyList(n) == DOMAIN n = {}

\* the text is a well-formed condition once trimmed
IsCondition(text) == matchCondition(trim(text)).ok

\* v is one or more well-formed conditions joined by sep and holds no other
\* structural character
IsJoinedBy(v, sep) ==
  /\ \A k \in 1..Len(v) : v[k] \in Structural => v[k] = sep
  /\ \A j \in 1..Len(split(v, sep)) : IsCondition(split(v, sep)[j])

\* the Condition nodes of the parts of v, in the order of the text
ConditionsOf(v, sep) ==
  [j \in 1..Len(split(v, sep)) |-> parseCondition(trim(split(v, sep)[j])).node]

GroupOf(logical, conditions) == [type |-> "group", logical |-> logical, conditions |-> conditions]

\* ---------------------------------------------------------------------- C1
\* C1 as stated: the filter of every returned Query is a Group, the default
\* Group (logical 'and', no conditions) when no filter parameter is given.
C1_FilterAlwaysGroup ==
  pc = "done" =>
    /\ IsGroup(result.filter)
    /\ (~ HasFilterParam =>
          result.filter.logical = AndToken /\ result.filter.conditions = <<>>)

\* C1 amended: the filter of a returned Query is a Group when a filter
\* parameter is given, also for a single bare condition, and it is the
\* empty list when no filter parameter is given.
C1_FilterGroupOrEmptyList ==
  pc = "done" =>
    IF HasFilterParam THEN IsGroup(result.filter) ELSE IsEmptyList(result.filter)

\* a Query is returned whose filter was one bare condition, wrapped in a Group
C1_Witness ==
  /\ pc = "done"
  /\ LastFilterDone > 0
  /\ IsCondition(params[LastFilterDone].value)
  /\ IsGroup(result.filter)
  /\ Len(result.filter.conditions) = 1
  /\ ~ IsGroup(result.filter.conditions[1])

\* ---------------------------------------------------------------------- C2
\* C2: a filter made of well-formed conditions joined by ';' never fails and
\* gives one Group tagged 'and' whose children are exactly the Condition
\* nodes of those conditions, in the order of the text.
C2_SemicolonJoined ==
  \A k \in 1..Len(params) :
    (IsFilter(k) /\ IsJoinedBy(params[k].value, ";")) =>
      /\ ~ (pc = "error" /\ i = k)
      /\ (k = LastFilterDone =>
            result.filter = GroupOf(AndToken, ConditionsOf(params[k].value, ";")))

\* a filter of two different conditions joined by ';' has been parsed
C2_Witness ==
  /\ pc = "done"
  /\ LastFilterDone > 0
  /\ IsJoinedBy(params[LastFilterDone].value, ";")
  /\ Len(result.filter.conditions) >= 2
  /\ result.filter.conditions[1] # result.filter.conditions[2]

\* ---------------------------------------------------------------------- C3
\* C3 as stated: a filter made of one or more well-formed conditions joined
\* by '|' gives one Group tagged 'or' with the Condition nodes in order.
C3_PipeJoinedAlwaysOr ==
  \A k \in 1..Len(params) :
    (IsFilter(k) /\ IsJoinedBy(params[k].value, "|")) =>
      /\ ~ (pc = "error" /\ i = k)
      /\ (k = LastFilterDone =>
            result.filter = GroupOf(OrToken, ConditionsOf(params[k].value, "|")))

\* C3 amended: a filter made of two or more well-formed conditions joined by
\* '|' gives one Group tagged 'or' with the Condition nodes in order; a
\* filter of exactly one condition holds no '|' and gives a Group tagged 'and'.
C3_PipeJoined ==
  \A k \in 1..Len(params) :
    (IsFilter(k) /\ IsJoinedBy(params[k].value, "|")) =>
      /\ ~ (pc = "error" /\ i = k)
      /\ (k = LastFilterDone =>
            result.filter =
              GroupOf(IF Len(split(params[k].value, "|")) >= 2 THEN OrToken ELSE AndToken,
                      ConditionsOf(params[k].value, "|")))

\* a filter of two different conditions joined by '|' has been parsed
C3_Witness ==
  /\ pc = "done"
  /\ LastFilterDone > 0
  /\ IsJoinedBy(params[LastFilterDone].value, "|")
  /\ result.filter.logical = OrToken
  /\ Len(result.filter.conditions) >= 2
  /\ result.filter.conditions[1] # result.filter.conditions[2]

\* ---------------------------------------------------------------------- C4
\* the text of v between the structural character before position p and p
PendingAt(v, p) ==
  LET prev == Max({0} \cup {q \in 1..(p - 1) : v[q] \in Structural})
  IN  SubSeq(v, prev + 1, p - 1)

\* a '(' of v, among the first n characters, with non-blank text pending
OpensOnPending(v, n) == {p \in 1..n : v[p] = "(" /\ trim(PendingAt(v, p)) # <<>>}

\* the number of parentheses open around position p of v
DepthAt(v, p) ==
  Cardinality({q \in 1..(p - 1) : v[q] = "("}) - Cardinality({q \in 1..(p - 1) : v[q] = ")"})

\* C4: a '(' reached while non-blank text is pending makes the parse fail
\* with the missing-delimiter error, at any nesting depth: tokenize never goes
\* past such a '(', no filter with one is ever parsed, and the error thrown
\* on a filter that holds one is the missing-delimiter error.
C4_MissingDelimiter ==
  \A k \in 1..Len(params) :
    IsFilter(k) =>
      /\ (k \in Done => OpensOnPending(params[k].value, Len(params[k].value)) = {})
      /\ ((k = i /\ pc = "tokenize") => OpensOnPending(params[k].value, pos - 1) = {})
      /\ ((k = i /\ pc = "error" /\ OpensOnPending(params[k].value, Len(params[k].value)) # {})
            => err = MissingDelimiter)

\* the missing-delimiter error is thrown at a '(' inside a group
C4_Witness ==
  /\ pc = "error"
  /\ err = MissingDelimiter
  /\ IsFilter(i)
  /\ pos \in OpensOnPending(params[i].value, Len(params[i].value))
  /\ DepthAt(params[i].value, pos) >= 1

\* ---------------------------------------------------------------------- C5
\* the leaf texts of v: the maximal runs of characters between structural
\* characters, trimmed, those that are not blank
LeafTexts(v) ==
  LET cuts == {0, Len(v) + 1} \cup {q \in 1..Len(v) : v[q] \in Structural}
      runs == {r \in cuts \X cuts : r[1] < r[2] /\ ~ \E c \in cuts : r[1] < c /\ c < r[2]}
  IN  {trim(SubSeq(v, r[1] + 1, r[2] - 1)) : r \in runs} \ {<<>>}

BadLeafTexts(v) == {t \in LeafTexts(v) : ~ matchCondition(t).ok}

\* C5: a filter with a leaf text that is no well-formed condition is never
\* parsed, and the error thrown on it is 'Invalid filter condition' with
\* such a leaf text.  (Filters on which C4's missing-delimiter error comes
\* first are left out.)
C5_BadLeafRejected ==
  \A k \in 1..Len(params) :
    (/\ IsFilter(k)
     /\ BadLeafTexts(params[k].value) # {}
     /\ OpensOnPending(params[k].value, Len(params[k].value)) = {}) =>
      /\ k \notin Done
      /\ ((k = i /\ pc = "error") =>
            \E t \in BadLeafTexts(params[k].value) : err = InvalidCondition(t))

\* ---------------------------------------------------------------------- C6
\* the error the parser of parameter k throws on its value, NoError if none
ErrorOf(k) ==
  IF IsFilter(k) THEN parseFilter(params[k].value).err
  ELSE IF IsSort(k) THEN parseSort(params[k].value).err
  ELSE IF startsWith(params[k].key, FieldsKey)
  THEN parseFields(params[k].key, params[k].value).err
  ELSE IF params[k].key \in {LimitKey, OffsetKey}
  THEN IF isNumeric(params[k].value) THEN NoError ELSE InvalidPagination(params[k].key)
  ELSE NoError

\* the parameters whose value their parser rejects
Rejected == {k \in 1..Len(params) : ErrorOf(k) # NoError}

\* C6: when the value of some parameter is rejected by its parser, no Query
\* is returned, the loop never goes past the first such parameter, and the
\* error thrown is the error of that parameter.
C6_FirstErrorAborts ==
  Rejected # {} =>
    /\ pc # "done"
    /\ i <= Min(Rejected)
    /\ (pc = "error" => i = Min(Rejected) /\ err = ErrorOf(Min(Rejected)))

\* the parse is aborted at a rejected parameter that follows an accepted one
\* and precedes a parameter rejected with another error
C6_Witness ==
  /\ pc = "error"
  /\ i >= 2
  /\ i = Min(Rejected)
  /\ \E k \in Rejected : k > i /\ ErrorOf(k) # err

\* ---------------------------------------------------------------------- C7
\* the number of parentheses open after position p of v
DepthAfter(v, p) ==
  Cardinality({q \in 1..p : v[q] = "("}) - Cardinality({q \in 1..p : v[q] = ")"})

\* the position of the ')' that closes the group opened at position q of v
\* (q = 0 for the root), the position after the end of v if none does
CloseOf(v, q) ==
  LET cs == {e \in (q + 1)..Len(v) : DepthAfter(v, e) = DepthAfter(v, q) - 1}
  IN  IF cs = {} THEN Len(v) + 1 ELSE Min(cs)

\* the positions that open a group of the tree: the root and every '('
\* before the end of the root
GroupOpens(v) == {0} \cup {q \in 1..(CloseOf(v, 0) - 1) : v[q] = "("}

\* the ';' and '|' directly at the level of the group opened at q
MarkersOf(v, q) ==
  {m \in (q + 1)..(CloseOf(v, q) - 1) : v[m] \in {";", "|"} /\ DepthAfter(v, m) = DepthAfter(v, q)}

\* the tag C7 gives the group opened at q
TagOf(v, q) ==
  IF MarkersOf(v, q) = {} THEN AndToken
  ELSE IF v[Max(MarkersOf(v, q))] = ";" THEN AndToken
  ELSE OrToken

\* the n-th smallest element of a set of numbers
Nth(S, n) == CHOOSE x \in S : Cardinality({y \in S : y <= x}) = n

\* the tags of the groups of v in the order of their opening
TagsOfText(v) == [n \in 1..Cardinality(GroupOpens(v)) |-> TagOf(v, Nth(GroupOpens(v), n))]

RECURSIVE TagsOfTree(_)
RECURSIVE TagsOfChildren(_)

TagsOfChildren(children) ==
  IF children = <<>> THEN <<>>
  ELSE (IF IsGroup(Head(children)) THEN TagsOfTree(Head(children)) ELSE <<>>)
       \o TagsOfChildren(Tail(children))

\* the tags of the groups of a tree, a group before the groups inside it
TagsOfTree(group) == <<group.logical>> \o TagsOfChildren(group.conditions)

\* C7: in every parsed filter, the tag of each Group is 'and' if no ';' or
\* '|' stands directly at the group's level and the last of them otherwise,
\* whatever the markers inside nested groups.
C7_LastLogicalWins ==
  \A k \in 1..Len(params) :
    (IsFilter(k) /\ k = LastFilterDone) =>
      TagsOfTree(result.filter) = TagsOfText(params[k].value)

\* ---------------------------------------------------------------------- C8
RECURSIVE NoEmptyGroup(_)
NoEmptyGroup(node) ==
  IsGroup(node) =>
    /\ node.conditions # <<>>
    /\ \A j \in 1..Len(node.conditions) : NoEmptyGroup(node.conditions[j])

\* C8: every Group of a parsed filter tree, root or nested, has at least
\* one child.
C8_GroupsNonEmpty ==
  LastFilterDone > 0 => NoEmptyGroup(result.filter)

\* ---------------------------------------------------------------------- C9
\* the SortSpec lists of the sort parameters among the first n, concatenated
RECURSIVE SortsUpTo(_)
SortsUpTo(n) ==
  IF n = 0 THEN <<>>
  ELSE SortsUpTo(n - 1) \o (IF IsSort(n) THEN parseSort(params[n].value).sort ELSE <<>>)

\* C9: the sort list is the concatenation, in the order of the URL, of the
\* SortSpec lists of the sort parameters gone past, whatever the parameters
\* in between.
C9_SortConcatenates == result.sort = SortsUpTo(i - 1)

\* a Query is returned for a URL with two sort parameters and a parameter of
\* another name between them
C9_Witness ==
  /\ pc = "done"
  /\ \E a, b, c \in 1..Len(params) :
       /\ a < b /\ b < c
       /\ IsSort(a) /\ ~ IsSort(b) /\ IsSort(c)
       /\ parseSort(params[a].value).sort # parseSort(params[c].value).sort
  /\ Len(result.sort) >= 2

\* --------------------------------------------------------------------- C10
HasColon(item) == \E c \in 1..Len(item) : item[c] = ":"

FirstColon(item) == Min({c \in 1..Len(item) : item[c] = ":"})

BeforeFirstColon(item) == IF HasColon(item) THEN SubSeq(item, 1, FirstColon(item) - 1) ELSE item

AfterFirstColon(item) == SubSeq(item, FirstColon(item) + 1, Len(item))

\* C10: every sort item is split on its first colon; the direction is 'asc'
\* only for an item without a colon, and with a colon the whole text after
\* the first colon is 'asc' or 'desc', or the parse fails with 'Invalid
\* sorting direction' naming that text.
C10_DirectionAfterFirstColon ==
  \A k \in 1..Len(params) :
    IsSort(k) =>
      LET items == split(params[k].value, ",")
      IN  /\ (k \in Done =>
                \A j \in 1..Len(items) :
                  HasColon(items[j]) => AfterFirstColon(items[j]) \in {AscText, DescText})
          /\ ((k \in Done /\ Len(params) = 1) =>
                \A j \in 1..Len(items) :
                  result.sort[j] =
                    [field |-> BeforeFirstColon(items[j]),
                     direction |-> IF HasColon(items[j]) THEN AfterFirstColon(items[j])
                                   ELSE AscText])
          /\ ((k = i /\ pc = "error" /\ err.msg = "Invalid sorting direction") =>
                \E j \in 1..Len(items) :
                  HasColon(items[j]) /\ err.arg = AfterFirstColon(items[j]))

\* --------------------------------------------------------------------- C11
IsFields(k) ==
  /\ params[k].key \notin {FilterKey, SortKey}
  /\ startsWith(params[k].key, FieldsKey)

\* the value has a colon with text before it and text after it
HasBothParts(v) == HasColon(v) /\ BeforeFirstColon(v) # <<>> /\ AfterFirstColon(v) # <<>>

\* C11: a fields value is split on its first colon; it is rejected with
\* 'Invalid fields selection' exactly when it has no colon or an empty part,
\* and otherwise gives the single entry resourceType -> everything after the
\* first colon split on commas.
C11_FieldsAfterFirstColon ==
  \A k \in 1..Len(params) :
    IsFields(k) =>
      /\ (k \in Done => HasBothParts(params[k].value))
      /\ ((k \in Done /\ Len(params) = 1) =>
            result.fields = [r \in {BeforeFirstColon(params[k].value)} |->
                               split(AfterFirstColon(params[k].value), ",")])
      /\ ((k = i /\ pc = "error") =>
            err = InvalidFields /\ ~ HasBothParts(params[k].value))

\* --------------------------------------------------------------------- C12
IsPagination(k) ==
  /\ params[k].key \in {LimitKey, OffsetKey}
  /\ ~ startsWith(params[k].key, FieldsKey)

\* C12: every limit and offset of the Query is an integer that is not
\* negative, and a limit or offset parameter is rejected only with 'Invalid
\* pagination field' naming it.
C12_PaginationNonNegative ==
  /\ \A key \in DOMAIN result.pagination :
       ~ result.pagination[key].nan /\ result.pagination[key].int >= 0
  /\ \A k \in 1..Len(params) :
       (IsPagination(k) /\ k = i /\ pc = "error") => err = InvalidPagination(params[k].key)

\* --------------------------------------------------------------------- C13
\* the tokens parseExpression is given for filter parameter k
TokensOf(k) == tokenize(params[k].value).tokens

\* a token list as a string: "(" and ")" for the parentheses, ";" and "|"
\* for the markers, "c" for any other token
Skeleton(ts) ==
  [j \in 1..Len(ts) |->
     IF ts[j] = LParen THEN "("
     ELSE IF ts[j] = RParen THEN ")"
     ELSE IF ts[j] = AndToken THEN ";"
     ELSE IF ts[j] = OrToken THEN "|"
     ELSE "c"]

\* every ')' closes a '(' and every '(' is closed
Balanced(sk) ==
  /\ DepthAfter(sk, Len(sk)) = 0
  /\ \A p \in 1..Len(sk) : DepthAfter(sk, p) >= 0

\* the terms of a token list in order: a group for each '(' and a leaf for
\* each condition token, each with the number of parentheses open around it
TermsOfTokens(ts) ==
  LET sk == Skeleton(ts)
      terms == {j \in 1..Len(ts) : sk[j] \in {"(", "c"}}
  IN  [n \in 1..Cardinality(terms) |->
         IF sk[Nth(terms, n)] = "("
         THEN [kind |-> "group", depth |-> DepthAfter(sk, Nth(terms, n)) - 1]
         ELSE [kind |-> "leaf", depth |-> DepthAfter(sk, Nth(terms, n)),
               node |-> parseCondition(ts[Nth(terms, n)]).node]]

\* the nodes below a group in order, a group before its children, each with
\* its depth below the root
RECURSIVE TermsOfChildren(_, _)
TermsOfChildren(children, depth) ==
  IF children = <<>> THEN <<>>
  ELSE (IF IsGroup(Head(children))
        THEN <<[kind |-> "group", depth |-> depth]>>
             \o TermsOfChildren(Head(children).conditions, depth + 1)
        ELSE <<[kind |-> "leaf", depth |-> depth, node |-> Head(children)]>>)
       \o TermsOfChildren(Tail(children), depth)

LeavesOf(terms) == SelectSeq(terms, LAMBDA t : t.kind = "leaf")

\* the token queue of filter parameter k is as parseExpression left it
QueueKept(k) ==
  /\ k = LastFilterDone
  /\ ~ (i <= Len(params) /\ IsFilter(i) /\ pc \in {"tokenize", "error"})

\* C14: when the root call of parseExpression has returned, balanced
\* parentheses or not, the token queue is empty and the Condition leaves of
\* the tree are, in order, the condition tokens of tokenize.
C14_NoConditionLost ==
  \A k \in 1..Len(params) :
    (IsFilter(k) /\ QueueKept(k)) =>
      /\ tokens = <<>>
      /\ [n \in 1..Len(LeavesOf(TermsOfChildren(result.filter.conditions, 0))) |->
            LeavesOf(TermsOfChildren(result.filter.conditions, 0))[n].node]
           = [n \in 1..Len(LeavesOf(TermsOfTokens(TokensOf(k)))) |->
                LeavesOf(TermsOfTokens(TokensOf(k)))[n].node]

\* --------------------------------------------------------------------- C15
\* the first character after position p of v that is not blank, " " if none
NextAfter(v, p) ==
  LET rest == {q \in (p + 1)..Len(v) : v[q] \notin WhiteSpace}
  IN  IF rest = {} THEN " " ELSE v[Min(rest)]

\* C15: in a parsed filter (here: one with balanced parentheses) a ')' is
\* followed by a delimiter, by another ')' or by the end of the text, never
\* directly by a condition or a '('.
C15_DelimiterAfterGroup ==
  \A k \in 1..Len(params) :
    (IsFilter(k) /\ k \in Done /\ Balanced(Skeleton(TokensOf(k)))) =>
      \A p \in 1..Len(params[k].value) :
        params[k].value[p] = ")" => NextAfter(params[k].value, p) \in {";", "|", ")", " "}

====
